---- MODULE Spec2Model ----
(***************************************************************************)
(* Model of src/app.py: the three-agent prompt chain                       *)
(* (GeneratorAgent -> VerifierAgent -> ReasonerAgent) behind               *)
(* process_question_with_agents, and the Streamlit button handler that     *)
(* stores its return value in st.session_state.result.                     *)
(*                                                                         *)
(* Python values that may be None are modelled as sequences of length at   *)
(* most one: None is <<>> and the string s is <<s>>.  A Python dict is a   *)
(* sequence of <<key, value>> pairs with distinct keys, in insertion       *)
(* order.                                                                  *)
(***************************************************************************)
EXTENDS Naturals, Sequences, FiniteSets, TLC

VARIABLES
    stage,            \* position inside the button handler / process_question_with_agents
    question_data,    \* the argument of process_question_with_agents
    initial_response, \* local of process_question_with_agents (line 20)
    probing_results,  \* local dict of probe_response (line 85), then of the caller (line 24)
    probe_idx,        \* index of the next probe of the for loop (line 86)
    analysis,         \* local of process_question_with_agents (line 28)
    analyze_arg,      \* the mapping analyze_probing_results was called with, as it was then
    final_assessment, \* local of process_question_with_agents (line 29)
    formatted_output, \* the value returned by process_question_with_agents (line 39)
    session_state,    \* st.session_state, a dict
    calls,            \* the remote completion calls issued so far by this invocation
    last,             \* the most recent remote call: its request and how it ended
    escaped,          \* TRUE once an exception has left process_question_with_agents
    runs_left,        \* button clicks the environment may still make
    faults            \* failing calls the remote service may still produce

vars == <<stage, question_data, initial_response, probing_results, probe_idx,
          analysis, analyze_arg, final_assessment, formatted_output, session_state,
          calls, last, escaped, runs_left, faults>>

(***************************************************************************)
(* Bounds of the model.                                                    *)
(***************************************************************************)
\* button clicks in one session (SpecSession)
MaxRuns == 2
\* failing remote calls in one session (SpecSession)
MaxFaults == 2
\* size of the key universe of the mappings given to analyze_probing_results (SpecAnalyze)
MaxKeys == 3

(***************************************************************************)
(* Python values.                                                          *)
(***************************************************************************)
None == <<>>
Str(s) == <<s>>

\* str.format / f-string conversion of a value that is a str or None
Format(v) == IF v = None THEN "None" ELSE v[1]

\* repr() of a str without quotes, backslashes or control characters
Repr(v) == IF v = None THEN "None" ELSE "'" \o v[1] \o "'"

RECURSIVE Join(_, _)
\* sep.join(parts)
Join(sep, parts) ==
    IF parts = <<>> THEN ""
    ELSE IF Len(parts) = 1 THEN parts[1]
    ELSE parts[1] \o sep \o Join(sep, Tail(parts))

(***************************************************************************)
(* dict: insertion-ordered, keys distinct.                                 *)
(***************************************************************************)
EmptyDict == <<>>
DictKeys(d) == [i \in 1..Len(d) |-> d[i][1]]
DictHas(d, k) == \E i \in 1..Len(d) : d[i][1] = k
\* d[k] = v: an existing key keeps its position, a new key goes last
DictSet(d, k, v) ==
    IF DictHas(d, k)
    THEN [i \in 1..Len(d) |-> IF d[i][1] = k THEN <<k, v>> ELSE d[i]]
    ELSE Append(d, <<k, v>>)

(***************************************************************************)
(* Constants of the program.                                               *)
(***************************************************************************)
Sentinel == Str("No valid response generated.")

probing_questions ==
    << "What are the key factors that led you to this conclusion by ruling out the other options?",
       "Can you identify any potential weaknesses in your reasoning?",
       "What alternative explanations might exist for this scenario?",
       "How might your answer change if [insert relevant detail] was different?",
       "On a scale of 1-10, how certain are you of this answer, and why?",
       "What additional information would help you be more confident in your answer?",
       "What are the potential consequences if this answer is incorrect?",
       "How does your answer align with standard medical practices or guidelines?" >>

NumProbes == Len(probing_questions)
\* 1 generate + the probes + 1 synthesize
NumCalls == NumProbes + 2

(***************************************************************************)
(* The remote completion service, client.chat.completions.create, seen     *)
(* from the caller: how one call can end.                                  *)
(*   ok            a response whose first choice carries text              *)
(*   network_error create raises (service unreachable)                     *)
(*   service_error create raises (the service answers with an error)       *)
(*   no_choices    a response whose list of choices is empty               *)
(*   no_content    a response whose first choice has content None          *)
(***************************************************************************)
\* the texts the service answers with: one canned text for each kind of request
Texts(fn) ==
    CASE fn = "generate"   -> {"canned generate-response"}
      [] fn = "probe"      -> {"canned probe-response"}
      [] fn = "synthesize" -> {"canned synthesize-response"}

\* the ways a call of agent fn can end
Outcomes(fn) ==
    [kind : {"ok"}, content : {Str(t) : t \in Texts(fn)}]
        \cup [kind : {"network_error", "service_error", "no_choices", "no_content"},
              content : {None}]

\* the exception the try block raises on outcome o, "" when it raises none:
\* create() raises on a transport or service error, choices[0] on an empty list;
\* .message.content of a choice without text is None and raises nothing
Raised(o) ==
    CASE o.kind = "network_error" -> "APIConnectionError"
      [] o.kind = "service_error" -> "APIStatusError"
      [] o.kind = "no_choices"    -> "IndexError"
      [] OTHER                    -> ""

\* response.choices[0].message.content
ChoiceContent(o) == o.content

\* mutant: the handler names the client's error class only (except APIError)
ExceptAPIErrorOnly(exc) == exc \in {"APIConnectionError", "APIStatusError"}

\* whether `except Exception` catches the exception class
ExceptException(exc) == exc \in {"APIConnectionError", "APIStatusError", "IndexError"}

(***************************************************************************)
(* GeneratorAgent                                                          *)
(***************************************************************************)
extract_options(options) ==
    Join("\n", [i \in 1..Len(options) |-> options[i][1] \o ": " \o options[i][2]])

GeneratePrompt(qd) ==
    "Question:\n" \o qd.question \o "\n\nOptions:\n" \o extract_options(qd.options)
    \o "\n\nYou are a medical expert with wide range of knowledge, your each and every decision and answer is crucial and must be accurate and onpoint , refer internet and all the available knowledge resources and analyze each option carefully and select only one best option (A, B, C, D, or E) which you think its right according to the question. Explain your reasoning in very short and crisp points."

\* the try/except of generate_initial_response on outcome o of its call:
\* ret is the value returned, exc is TRUE when the exception is not caught
generate_initial_response(qd, o) ==
    IF Raised(o) = "" THEN [ret |-> ChoiceContent(o), exc |-> FALSE]
    ELSE IF ExceptException(Raised(o)) THEN [ret |-> Sentinel, exc |-> FALSE]
    ELSE [ret |-> None, exc |-> TRUE]

(***************************************************************************)
(* VerifierAgent                                                           *)
(***************************************************************************)
ProbingPrompt(question, initial, probe) ==
    question \o "\n\nInitial response: " \o Format(initial) \o "\n\n" \o probe
    \o "\n\nJust answer the probing questions in short and crisp points. No need for further explanation."

\* mutant: the except block ends the loop (break)
NextProbeIdxBreak(idx, raised) == IF raised THEN NumProbes + 1 ELSE idx + 1

\* mutant: a probe whose call raised is asked again
NextProbeIdxRetry(idx, raised) == IF raised THEN idx ELSE idx + 1

\* the for loop of probe_response moves to the next probe whether or not the
\* call of probe number idx raised
NextProbeIdx(idx, raised) == idx + 1

\* mutant: the except block only logs, no entry is stored for the probe
probe_response_step_drop(results, probe, o) ==
    IF Raised(o) = "" THEN [results |-> DictSet(results, probe, ChoiceContent(o)), exc |-> FALSE]
    ELSE [results |-> results, exc |-> FALSE]

\* one iteration of the for loop of probe_response on outcome o of its call:
\* results is probing_results after the iteration
probe_response_step(results, probe, o) ==
    IF Raised(o) = "" THEN [results |-> DictSet(results, probe, ChoiceContent(o)), exc |-> FALSE]
    ELSE IF ExceptException(Raised(o)) THEN [results |-> DictSet(results, probe, Sentinel), exc |-> FALSE]
    ELSE [results |-> results, exc |-> TRUE]

(***************************************************************************)
(* ReasonerAgent                                                           *)
(***************************************************************************)
\* mutant: the value is copied without the "Analysis of: " prefix
AnalyzeItemUnwrapped(st, i) ==
    [st EXCEPT !.analysis = DictSet(@, st.probing_results[i][1], st.probing_results[i][2])]

\* line 111, for item number i of probing_results.items(): st holds the two dicts
AnalyzeItem(st, i) ==
    [st EXCEPT !.analysis =
        DictSet(@, st.probing_results[i][1],
                Str("Analysis of: " \o Format(st.probing_results[i][2])))]

RECURSIVE AnalyzeFrom(_, _)
\* the for loop of analyze_probing_results from item i on
AnalyzeFrom(i, st) ==
    IF i > Len(st.probing_results) THEN st
    ELSE CHOOSE end \in {AnalyzeFrom(i + 1, next) : next \in {AnalyzeItem(st, i)}} : TRUE

\* mutant: analysis = probing_results instead of analysis = {}: the loop
\* rewrites the argument itself
analyze_in_place(r) ==
    [probing_results |-> AnalyzeFrom(1, [probing_results |-> r, analysis |-> EmptyDict]).analysis,
     analysis |-> AnalyzeFrom(1, [probing_results |-> r, analysis |-> EmptyDict]).analysis]

\* analyze_probing_results(r): .analysis is the dict returned, .probing_results is
\* the argument as the call leaves it
analyze_probing_results(r) ==
    AnalyzeFrom(1, [probing_results |-> r, analysis |-> EmptyDict])

\* str(dict)
DictRepr(d) ==
    "{" \o Join(", ", [i \in 1..Len(d) |-> Repr(Str(d[i][1])) \o ": " \o Repr(d[i][2])]) \o "}"

AssessmentPrompt(question, initial, an) ==
    "Question: " \o question \o "\n\nInitial response: " \o Format(initial)
    \o "\n\nBased on the following analysis, provide a final assessment and select only one best and the correct option (A, B, C, D, or E):\n"
    \o DictRepr(an)

\* mutant: the except block returns an empty string
generate_final_assessment_empty(question, initial, an, o) ==
    IF Raised(o) = "" THEN [ret |-> ChoiceContent(o), exc |-> FALSE]
    ELSE [ret |-> Str(""), exc |-> FALSE]

generate_final_assessment(question, initial, an, o) ==
    IF Raised(o) = "" THEN [ret |-> ChoiceContent(o), exc |-> FALSE]
    ELSE IF ExceptException(Raised(o)) THEN [ret |-> Sentinel, exc |-> FALSE]
    ELSE [ret |-> None, exc |-> TRUE]

(***************************************************************************)
(* process_question_with_agents and the button handler                     *)
(***************************************************************************)
\* the dict built at lines 32-37
FormatOutput(qd, initial, results, final) ==
    ("Question" :> qd.question)
        @@ ("Initial Response" :> initial)
        @@ ("Probing Questions and Answers" :> results)
        @@ ("Final Assessment" :> final)

OutputKeys == {"Question", "Initial Response", "Probing Questions and Answers", "Final Assessment"}

\* mutant: the verifier step is left out
NextStageSkipProbing(s) ==
    CASE s = "Idle"         -> "Generating"
      [] s = "Generating"   -> "Synthesizing"
      [] s = "Synthesizing" -> "Done"
      [] OTHER              -> "Idle"

\* the stage that follows s in process_question_with_agents
NextStage(s) ==
    CASE s = "Idle"         -> "Generating"
      [] s = "Generating"   -> "Probing"
      [] s = "Probing"      -> "Synthesizing"
      [] s = "Synthesizing" -> "Done"
      [] OTHER              -> "Idle"

\* the arguments process_question_with_agents is given: the question of the form,
\* with the form's five labelled options or, from another caller, with no option
Questions == {"Patient presents with fever and rash"}
OptionMaps ==
    { EmptyDict,
      << <<"A", "Measles">>, <<"B", "Scarlet fever">>, <<"C", "Rubella">>,
         <<"D", "Varicella">>, <<"E", "Roseola">> >> }

NoCall == [fn |-> "", prompt |-> "", max_tokens |-> 0, kind |-> ""]

\* one entry of the call log: the call, and what came back
CallEntry(fn, probe, o) ==
    [fn |-> fn, probe |-> probe, raised |-> Raised(o) # "", content |-> ChoiceContent(o)]

\* the service may fail only while its budget of failures lasts
Allowed(o) == o.kind = "ok" \/ faults > 0
Spend(o) == IF o.kind = "ok" THEN faults ELSE faults - 1

\* an uncaught exception unwinds process_question_with_agents and the script run
Unwind ==
    /\ escaped' = TRUE
    /\ stage' = "Idle"
    /\ UNCHANGED <<initial_response, probing_results, probe_idx, analysis, analyze_arg,
                   final_assessment, formatted_output>>

\* lines 141-151: the button is pressed and process_question_with_agents is entered
Click ==
    /\ stage = "Idle"
    /\ runs_left > 0
    /\ \E q \in Questions, opts \in OptionMaps :
           question_data' = [question |-> q, options |-> opts]
    /\ stage' = NextStage(stage)
    /\ runs_left' = runs_left - 1
    /\ initial_response' = None
    /\ probing_results' = EmptyDict
    /\ probe_idx' = 1
    /\ analysis' = EmptyDict
    /\ analyze_arg' = EmptyDict
    /\ final_assessment' = None
    /\ formatted_output' = None
    /\ calls' = <<>>
    /\ last' = NoCall
    /\ UNCHANGED <<session_state, escaped, faults>>

\* lines 19-20 (and 49-67): the generate call
Generate ==
    /\ stage = "Generating"
    /\ \E o \in Outcomes("generate") :
        /\ Allowed(o)
        /\ faults' = Spend(o)
        /\ calls' = Append(calls, CallEntry("generate", "", o))
        /\ last' = [fn |-> "generate", prompt |-> GeneratePrompt(question_data),
                    max_tokens |-> 500, kind |-> o.kind]
        /\ LET r == generate_initial_response(question_data, o)
           IN  IF r.exc THEN Unwind
               ELSE /\ initial_response' = r.ret
                    /\ stage' = NextStage(stage)
                    /\ probing_results' = EmptyDict
                    /\ probe_idx' = 1
                    /\ UNCHANGED <<analysis, analyze_arg, final_assessment,
                                   formatted_output, escaped>>
    /\ UNCHANGED <<question_data, session_state, runs_left>>

\* lines 86-100: one iteration of the probe loop
Probe ==
    /\ stage = "Probing"
    /\ probe_idx <= NumProbes
    /\ \E o \in Outcomes("probe") :
        /\ Allowed(o)
        /\ faults' = Spend(o)
        /\ LET probe == probing_questions[probe_idx]
               r == probe_response_step(probing_results, probe, o)
           IN  /\ calls' = Append(calls, CallEntry("probe", probe, o))
               /\ last' = [fn |-> "probe",
                           prompt |-> ProbingPrompt(question_data.question, initial_response, probe),
                           max_tokens |-> 300, kind |-> o.kind]
               /\ IF r.exc THEN Unwind
                  ELSE /\ probing_results' = r.results
                       /\ probe_idx' = NextProbeIdx(probe_idx, Raised(o) # "")
                       /\ UNCHANGED <<stage, initial_response, analysis, analyze_arg,
                                      final_assessment, formatted_output, escaped>>
    /\ UNCHANGED <<question_data, session_state, runs_left>>

\* lines 101, 24, 27-28: probe_response returns and its result is analysed
Analyze ==
    /\ stage = "Probing"
    /\ probe_idx > NumProbes
    /\ LET st == analyze_probing_results(probing_results)
       IN  /\ analyze_arg' = probing_results
           /\ analysis' = st.analysis
           /\ probing_results' = st.probing_results
    /\ stage' = NextStage(stage)
    /\ UNCHANGED <<question_data, initial_response, probe_idx, final_assessment,
                   formatted_output, session_state, calls, last, escaped, runs_left, faults>>

\* lines 29-39 (and 114-128): the synthesize call, then the output is built and returned
Synthesize ==
    /\ stage = "Synthesizing"
    /\ \E o \in Outcomes("synthesize") :
        /\ Allowed(o)
        /\ faults' = Spend(o)
        /\ calls' = Append(calls, CallEntry("synthesize", "", o))
        /\ last' = [fn |-> "synthesize",
                    prompt |-> AssessmentPrompt(question_data.question, initial_response, analysis),
                    max_tokens |-> 500, kind |-> o.kind]
        /\ LET r == generate_final_assessment(question_data.question, initial_response, analysis, o)
           IN  IF r.exc THEN Unwind
               ELSE /\ final_assessment' = r.ret
                    /\ formatted_output' =
                           Str(FormatOutput(question_data, initial_response, probing_results, r.ret))
                    /\ stage' = NextStage(stage)
                    /\ UNCHANGED <<initial_response, probing_results, probe_idx, analysis,
                                   analyze_arg, escaped>>
    /\ UNCHANGED <<question_data, session_state, runs_left>>

\* mutant: the handler publishes the output under construction after each step
SavePartial ==
    /\ stage \in {"Probing", "Done"}
    /\ session_state' = DictSet(session_state, "result",
           FormatOutput(question_data, initial_response, probing_results, final_assessment))
    /\ stage' = IF stage = "Done" THEN "Idle" ELSE stage
    /\ UNCHANGED <<question_data, initial_response, probing_results, probe_idx, analysis,
                   analyze_arg, final_assessment, formatted_output, calls, last, escaped,
                   runs_left, faults>>

\* line 154: st.session_state.result = result
Save ==
    /\ stage = "Done"
    /\ session_state' = DictSet(session_state, "result", formatted_output[1])
    /\ stage' = NextStage(stage)
    /\ UNCHANGED <<question_data, initial_response, probing_results, probe_idx, analysis,
                   analyze_arg, final_assessment, formatted_output, calls, last, escaped,
                   runs_left, faults>>

Start ==
    /\ stage = "Idle"
    /\ question_data = [question |-> "", options |-> EmptyDict]
    /\ initial_response = None
    /\ probing_results = EmptyDict
    /\ probe_idx = 1
    /\ analysis = EmptyDict
    /\ analyze_arg = EmptyDict
    /\ final_assessment = None
    /\ formatted_output = None
    /\ session_state = EmptyDict
    /\ calls = <<>>
    /\ last = NoCall
    /\ escaped = FALSE

\* one invocation, the service free to fail every call
Init == Start /\ runs_left = 1 /\ faults = NumCalls

\* a session of several invocations, the service failing a bounded number of calls
InitSession == Start /\ runs_left = MaxRuns /\ faults = MaxFaults

Next == Click \/ Generate \/ Probe \/ Analyze \/ Synthesize \/ Save

Spec == Init /\ [][Next]_vars

SpecSession == InitSession /\ [][Next]_vars

\* every remote call is a blocking request that returns or raises, and the
\* statements between the calls run to completion; the button is pressed or not
Fairness ==
    WF_vars(Generate) /\ WF_vars(Probe) /\ WF_vars(Analyze) /\ WF_vars(Synthesize)

FairSession == SpecSession /\ Fairness

(***************************************************************************)
(* analyze_probing_results on its own: called with any small mapping.      *)
(***************************************************************************)
AnalyzeKeys == {"k" \o ToString(i) : i \in 1..MaxKeys}
AnalyzeValues == {Str(t) : t \in Texts("probe")} \cup {Sentinel, Str(""), None}

RECURSIVE DictsOver(_)
\* the dicts whose keys are distinct members of keys, in every order
DictsOver(keys) ==
    {EmptyDict} \cup
        UNION { { <<(<<k, v>>)>> \o d : v \in AnalyzeValues, d \in DictsOver(keys \ {k}) }
                : k \in keys }

\* probe_response has just filled its dict: the loop is over and line 28 is next
InitAnalyze ==
    /\ stage = "Probing"
    /\ probe_idx = NumProbes + 1
    /\ probing_results \in DictsOver(AnalyzeKeys)
    /\ question_data \in [question : Questions, options : {EmptyDict}]
    /\ initial_response = Sentinel
    /\ analysis = EmptyDict
    /\ analyze_arg = EmptyDict
    /\ final_assessment = None
    /\ formatted_output = None
    /\ session_state = EmptyDict
    /\ calls = <<>>
    /\ last = NoCall
    /\ escaped = FALSE
    /\ runs_left = 0
    /\ faults = 0

SpecAnalyze == InitAnalyze /\ [][Analyze]_vars

(***************************************************************************)
(* Vocabulary of the properties.                                           *)
(***************************************************************************)
\* process_question_with_agents has returned (and no new invocation has begun)
Returned == formatted_output # None
Out == formatted_output[1]
OutProbes == Out["Probing Questions and Answers"]

\* dict d maps key k to value v
EntryIs(d, k, v) == \E i \in 1..Len(d) : d[i] = <<k, v>>

InFlight == stage \in {"Generating", "Probing", "Synthesizing"}

\* the local variable that the logged call c fills holds v
SlotHolds(c, v) ==
    CASE c.fn = "generate"   -> initial_response = v
      [] c.fn = "probe"      -> EntryIs(probing_results, c.probe, v)
      [] c.fn = "synthesize" -> final_assessment = v
      [] OTHER               -> FALSE

\* the field of the returned output that the logged call c fills holds v
OutHolds(c, v) ==
    CASE c.fn = "generate"   -> Out["Initial Response"] = v
      [] c.fn = "probe"      -> EntryIs(OutProbes, c.probe, v)
      [] c.fn = "synthesize" -> Out["Final Assessment"] = v
      [] OTHER               -> FALSE

CallIds == [j \in 1..Len(calls) |-> <<calls[j].fn, calls[j].probe>>]

\* the chain of calls of one invocation: generate, the probes in list order, synthesize
ExpectedCalls ==
    << <<"generate", "">> >>
        \o [i \in 1..NumProbes |-> <<"probe", probing_questions[i]>>]
        \o << <<"synthesize", "">> >>

AllCallsRaised == \A j \in 1..Len(calls) : calls[j].raised

\* a complete PipelineOutput: the four fields, a question, one answer per probe
CompleteOutput(out) ==
    /\ DOMAIN out = OutputKeys
    /\ out["Question"] \in Questions
    /\ DictKeys(out["Probing Questions and Answers"]) = probing_questions

(***************************************************************************)
(* C1: whatever way each of the 10 remote calls ends, no exception leaves  *)
(* process_question_with_agents, an invocation under way can always take   *)
(* its next step, it never issues more than 10 calls, and what it returns  *)
(* is a dict with exactly the four fields Question, Initial Response,      *)
(* Probing Questions and Answers, Final Assessment.                        *)
(***************************************************************************)
C1_AlwaysReturnsFullOutput ==
    /\ ~escaped
    /\ Len(calls) <= 10
    /\ InFlight => ENABLED (Generate \/ Probe \/ Analyze \/ Synthesize)
    /\ stage = "Done" => Returned
    /\ Returned => DOMAIN Out = OutputKeys

\* an invocation has returned although its calls ended in every way a call can end
C1_Witness ==
    /\ stage = "Done"
    /\ Returned
    /\ Len(calls) = 10
    /\ calls[1].raised
    /\ \E j \in 2..9 : calls[j].raised
    /\ \E j \in 2..9 : ~calls[j].raised /\ calls[j].content = None
    /\ \E j \in 2..9 : calls[j].content # None
    /\ last.kind = "no_choices"

(***************************************************************************)
(* C2: the probing results of every returned output have exactly 8         *)
(* entries, keyed by the 8 probe texts in probe-list order, whichever      *)
(* probe calls raised and whatever the options mapping, the empty one      *)
(* included.                                                               *)
(***************************************************************************)
C2_EightProbeEntriesInOrder ==
    Returned =>
        /\ Len(OutProbes) = 8
        /\ DictKeys(OutProbes) = probing_questions

\* returned for an empty options mapping with some probe calls raised
C2_Witness ==
    /\ Returned
    /\ question_data.options = EmptyDict
    /\ \E j \in 2..9 : calls[j].raised
    /\ \E j \in 2..9 : ~calls[j].raised

FailureKinds == {"network_error", "service_error", "no_choices", "no_content"}

C5_EveryFailureKindGivesSentinel ==
    /\ (calls # <<>> /\ last.kind \in FailureKinds) => SlotHolds(calls[Len(calls)], Sentinel)
    /\ \A j \in 1..Len(calls) :
           (~calls[j].raised /\ calls[j].content # None) => SlotHolds(calls[j], calls[j].content)

(***************************************************************************)
(* C6: the stage only moves Idle -> Generating -> Probing -> Synthesizing  *)
(* -> Done, one stage at a time, and from Done back to Idle when the       *)
(* handler has stored the result; there is no other stage; and an          *)
(* invocation that has begun reaches Done, however its calls end.          *)
(***************************************************************************)
StageOrder == <<"Idle", "Generating", "Probing", "Synthesizing", "Done">>

Follows(a, b) ==
    \/ \E i \in 1..4 : a = StageOrder[i] /\ b = StageOrder[i + 1]
    \/ a = "Done" /\ b = "Idle"

C6_StagesStrictlyForward ==
    /\ [](stage \in {StageOrder[i] : i \in 1..5})
    /\ [][stage' # stage => Follows(stage, stage')]_vars
    /\ (stage = "Generating") ~> (stage = "Done")

\* the second invocation of a session is Done after its generate call and its
\* synthesize call raised
C6_Witness ==
    /\ stage = "Done"
    /\ session_state # EmptyDict
    /\ Len(calls) = 10
    /\ calls[1].raised
    /\ calls[10].raised

(***************************************************************************)
(* C7: a call that returns text T leaves exactly T in its slot and in its  *)
(* field of the returned output: Initial Response, the probe's entry of    *)
(* Probing Questions and Answers (not the "Analysis of: " wrapping handed  *)
(* to the synthesizer), Final Assessment.                                  *)
(***************************************************************************)
C7_ReturnedTextStoredVerbatim ==
    \A j \in 1..Len(calls) :
        (~calls[j].raised /\ calls[j].content # None) =>
            /\ SlotHolds(calls[j], calls[j].content)
            /\ Returned => OutHolds(calls[j], calls[j].content)

\* all 10 calls returned text, the output is returned and the analysis is wrapped
C7_Witness ==
    /\ Returned
    /\ Len(calls) = 10
    /\ \A j \in 1..10 : ~calls[j].raised /\ calls[j].content # None
    /\ Out["Initial Response"] = Str("canned generate-response")
    /\ \A i \in 1..8 : EntryIs(OutProbes, probing_questions[i], Str("canned probe-response"))
    /\ Out["Final Assessment"] = Str("canned synthesize-response")
    /\ EntryIs(analysis, probing_questions[1], Str("Analysis of: canned probe-response"))

(***************************************************************************)
(* C8: analyze_probing_results keeps the keys of its argument r and their  *)
(* order, maps every key k to "Analysis of: " followed by r[k] (by the     *)
(* text None when r[k] is None), gives an empty mapping for an empty one,  *)
(* and leaves r as it was.                                                 *)
(***************************************************************************)
Wrapped(v) == IF v = None THEN Str("Analysis of: None") ELSE Str("Analysis of: " \o v[1])

C8_AnalyzePureOrderPreserving ==
    stage = "Synthesizing" =>
        /\ probing_results = analyze_arg
        /\ Len(analysis) = Len(analyze_arg)
        /\ \A i \in 1..Len(analyze_arg) :
               analysis[i] = <<analyze_arg[i][1], Wrapped(analyze_arg[i][2])>>

\* analysed: a mapping of three entries whose keys are not in sorted order
C8_Witness ==
    /\ stage = "Synthesizing"
    /\ Len(analyze_arg) = 3
    /\ analyze_arg[1][1] = "k3" /\ analyze_arg[2][1] = "k1"
    /\ analyze_arg[1][2] = Str("canned probe-response")
    /\ analysis[1] = <<"k3", Str("Analysis of: canned probe-response")>>

(***************************************************************************)
(* C9: an invocation issues exactly 10 remote calls: the generate call,    *)
(* the 8 probe calls in probe-list order, the synthesize call.  At every   *)
(* moment the calls issued are a prefix of that chain, however the calls   *)
(* ended: none is repeated and none is left out.                           *)
(***************************************************************************)
C9_TenCallsInOrder ==
    /\ Len(calls) <= 10
    /\ CallIds = SubSeq(ExpectedCalls, 1, Len(calls))
    /\ Returned => Len(calls) = 10 /\ CallIds = ExpectedCalls

\* the chain is complete although the generate call and two probe calls raised
C9_Witness ==
    /\ Returned
    /\ Len(calls) = 10
    /\ calls[1].raised /\ calls[2].raised /\ calls[9].raised
    /\ ~calls[10].raised

(***************************************************************************)
(* C10: st.session_state.result is absent or a complete output; it changes *)
(* only in the step that follows the return of                             *)
(* process_question_with_agents, and then to the whole returned output.    *)
(***************************************************************************)
C10_ResultSlotWhole ==
    /\ [](\/ session_state = EmptyDict
          \/ /\ DictKeys(session_state) = <<"result">>
             /\ CompleteOutput(session_state[1][2]))
    /\ [][session_state' # session_state =>
            /\ stage = "Done"
            /\ Returned
            /\ session_state' = << <<"result", Out>> >>]_vars

\* a second invocation is half way through its probes while the slot holds the
\* output of the first
C10_Witness ==
    /\ stage = "Probing"
    /\ Len(probing_results) = 4
    /\ session_state # EmptyDict
    /\ Len(session_state[1][2]["Probing Questions and Answers"]) = 8

====
